---- MODULE Spec2Model ----
(***************************************************************************)
(* Leave-request bot (src/main.py): the conversation engine, the date      *)
(* eligibility rules, the record store and the HTTP facade, as one state   *)
(* machine.                                                                *)
(*                                                                         *)
(* Conventions of the model                                                *)
(*  - A text is a sequence of one-character strings.  Cyrillic texts of    *)
(*    the source are written transliterated in Latin letters; the case     *)
(*    conversions, strip and the regular expressions are computed on the   *)
(*    characters.                                                          *)
(*  - A callback payload is the sequence of its ':'-separated parts, the   *)
(*    result of data.split(':') in the handlers.                           *)
(*  - A date is a day number; day 0 is a Monday, so date.weekday() is the  *)
(*    day number modulo 7.                                                 *)
(*  - The wall clock of Europe/Kiev is (nowDay, nowHour, nowSub); nowSub   *)
(*    is 0 exactly on the hour and 1 at any later instant of that hour.    *)
(*  - A Python dict is a function whose domain is the set of its keys.     *)
(***************************************************************************)
EXTENDS Integers, Sequences, FiniteSets, TLC

VARIABLES
    nowDay, nowHour, nowSub,  \* wall clock in KYIV_TZ
    hostOffset,               \* hours by which KYIV_TZ is ahead of the host's zone
    state,                    \* ConversationHandler state of each chat
    user_data,                \* context.user_data of each chat
    users,                    \* table users: user_id -> row
    registrations,            \* table registrations: set of rows
    reg_seq,                  \* last value of the sequence of registrations.id
    ranks,                    \* table ranks: set of rows
    rank_seq,                 \* last value of the sequence of ranks.id
    reply,                    \* what the last handled event answered
    tasks,                    \* process_update calls in progress, in arrival order
    keyboards,                \* the release-type keyboards on display in each chat
    cancel_buttons            \* the record ids of the cancel buttons on display in each chat

vars == <<nowDay, nowHour, nowSub, hostOffset, state, user_data, users,
          registrations, reg_seq, ranks, rank_seq, reply, tasks, keyboards,
          cancel_buttons>>

clock == <<nowDay, nowHour, nowSub, hostOffset>>
store == <<users, registrations, reg_seq, ranks, rank_seq>>

----------------------------------------------------------------------------
(* Bounds of the model *)

MaxUser == 2        \* chat identities 1..MaxUser
MaxDate == 7        \* dates 0..MaxDate (Monday .. next Monday)
MaxRegSeq == 2      \* the registrations.id sequence is not advanced past this
MaxRankSeq == 5     \* the ranks.id sequence is not advanced past this
MaxStoreDay == 1    \* the last day the clock of SpecStore reaches
MaxTask == 2        \* process_update calls in progress at once
MaxShown == 2       \* messages of a chat that show the same release-type keyboard

Users == 1..MaxUser
Dates == 0..MaxDate

----------------------------------------------------------------------------
(* Texts *)

Lowers == <<"a","b","c","d","e","f","g","h","i","j","k","l","m",
            "n","o","p","q","r","s","t","u","v","w","x","y","z">>
Uppers == <<"A","B","C","D","E","F","G","H","I","J","K","L","M",
            "N","O","P","Q","R","S","T","U","V","W","X","Y","Z">>
Alpha == 1..Len(Lowers)

IsLower(ch) == \E i \in Alpha : Lowers[i] = ch
IsUpper(ch) == \E i \in Alpha : Uppers[i] = ch
IsLetter(ch) == IsLower(ch) \/ IsUpper(ch)
IsDigit(ch) == ch \in {"0","1","2","3","4","5","6","7","8","9"}
IsSpace(ch) == ch = " "
\* \w of re: letters, digits and the underscore
IsWord(ch) == IsLetter(ch) \/ IsDigit(ch) \/ ch = "_"

CharLower(ch) == IF IsUpper(ch) THEN Lowers[CHOOSE i \in Alpha : Uppers[i] = ch] ELSE ch
CharUpper(ch) == IF IsLower(ch) THEN Uppers[CHOOSE i \in Alpha : Lowers[i] = ch] ELSE ch

\* str.lower()
lower(s) == [i \in 1..Len(s) |-> CharLower(s[i])]
\* str.capitalize(): first character upper case, the rest lower case
capitalize(s) == [i \in 1..Len(s) |-> IF i = 1 THEN CharUpper(s[i]) ELSE CharLower(s[i])]

RECURSIVE lstrip(_)
lstrip(s) == IF s # <<>> /\ IsSpace(Head(s)) THEN lstrip(Tail(s)) ELSE s
RECURSIVE rstrip(_)
rstrip(s) == IF s # <<>> /\ IsSpace(s[Len(s)]) THEN rstrip(SubSeq(s, 1, Len(s) - 1)) ELSE s
\* str.strip()
strip(s) == rstrip(lstrip(s))

\* str.isdigit()
isdigit(s) == s # <<>> /\ \A i \in 1..Len(s) : IsDigit(s[i])

\* re.match(r"^[a-zA-Z<cyrillic>\-\']+$", s)
SurnamePattern(s) == s # <<>> /\ \A i \in 1..Len(s) : IsLetter(s[i]) \/ s[i] \in {"-", "'"}
\* re.match(r"^[\d\s\W]+$", s)
NoWordPattern(s) == s # <<>> /\ \A i \in 1..Len(s) : IsDigit(s[i]) \/ IsSpace(s[i]) \/ ~IsWord(s[i])
\* re.search(r"[a-zA-Z<cyrillic>]", s)
HasLetter(s) == \E i \in 1..Len(s) : IsLetter(s[i])

----------------------------------------------------------------------------
(* Python dicts *)

EmptyDict == [k \in {} |-> TRUE]
Has(d, k) == k \in DOMAIN d
Put(d, k, v) == (k :> v) @@ d

----------------------------------------------------------------------------
(* Clock and dates *)

SAME_DAY_CUTOFF_HOUR == 16
WEEKEND_DEADLINE_HOUR == 17
THURSDAY == 3
FRIDAY == 4
SATURDAY == 5
SUNDAY == 6

\* date.weekday(): 0 = Monday .. 6 = Sunday
weekday(d) == d % 7

\* datetime.now(KYIV_TZ).date()
KyivToday == nowDay
\* date.today(): the date of the host's clock, which is hostOffset hours behind
HostToday == IF nowHour < hostOffset THEN nowDay - 1 ELSE nowDay

\* the instant (day, hour, sub) is strictly later than (dday, dhour, 0)
After(day, hour, sub, dday, dhour) ==
    \/ day > dday
    \/ day = dday /\ hour > dhour
    \/ day = dday /\ hour = dhour /\ sub > 0

\* mutant: the deadline is the eve of the date
deadline_date_Eve(d) == d - 1
\* selected_date - timedelta(days=target_dow - 3)
deadline_date(d) == d - (weekday(d) - THURSDAY)

\* mutant: yesterday is not yet past
IsPast_OffByOne(day, d) == d < day - 1
\* rule 1 of the date handler: the date is before today
IsPast(day, d) == d < day
\* mutant: > in place of >=
SameDayClosed_Strict(day, hour, d) == d = day /\ hour > SAME_DAY_CUTOFF_HOUR
\* rule 2: the date is today and the cutoff hour has come
SameDayClosed(day, hour, d) == d = day /\ hour >= SAME_DAY_CUTOFF_HOUR
\* rule 3: the date is a Friday, Saturday or Sunday and now is after the deadline
WeekendClosed(day, hour, sub, d) ==
    /\ weekday(d) \in {FRIDAY, SATURDAY, SUNDAY}
    /\ After(day, hour, sub, deadline_date(d), WEEKEND_DEADLINE_HOUR)

\* the verdict of the date handler on a 'day:' selection, rules in the order of the code
Verdict(day, hour, sub, d) ==
    IF IsPast(day, d) THEN "past"
    ELSE IF SameDayClosed(day, hour, d) THEN "today_closed"
    ELSE IF WeekendClosed(day, hour, sub, d) THEN "weekend_closed"
    ELSE "ok"

----------------------------------------------------------------------------
(* Record store *)

\* None of Python, NULL of SQL
NULL == "None"

UserRow(rank, name, group_number) ==
    [rank |-> rank, name |-> name, group_number |-> group_number]

\* get_user(user_id) is not None
UserExists(table, user_id) == user_id \in DOMAIN table

\* INSERT INTO users ... ON CONFLICT (user_id) DO UPDATE
insert_user(table, user_id, rank, name, group_number) ==
    (user_id :> UserRow(rank, name, group_number)) @@ table

\* UPDATE users SET rank, name, group_number WHERE user_id
update_user_from_admin(table, user_id, rank, name, group_number) ==
    IF user_id \in DOMAIN table
    THEN [table EXCEPT ![user_id] = UserRow(rank, name, group_number)]
    ELSE table

\* DELETE FROM users WHERE user_id
delete_user_db(table, user_id) == [u \in DOMAIN table \ {user_id} |-> table[u]]
\* mutant: the foreign key has no ON DELETE CASCADE and is not enforced
CascadeDelete_None(regs, user_id) == regs
\* ... REFERENCES users(user_id) ON DELETE CASCADE
CascadeDelete(regs, user_id) == {r \in regs : r.user_id # user_id}

RegRow(id, user_id, event_type, event_date, reason, return_info) ==
    [id |-> id, user_id |-> user_id, event_type |-> event_type,
     event_date |-> event_date, reason |-> reason, return_info |-> return_info]

\* the row of UNIQUE (user_id, event_date), if any
Conflicting(regs, user_id, event_date) ==
    {r \in regs : r.user_id = user_id /\ r.event_date = event_date}

\* mutant: a plain INSERT, no ON CONFLICT clause and no UNIQUE constraint
insert_registration_NoConflict(regs, id, user_id, event_type, event_date, reason, return_info) ==
    regs \cup {RegRow(id, user_id, event_type, event_date, reason, return_info)}
\* mutant: ON CONFLICT DO NOTHING
insert_registration_DoNothing(regs, id, user_id, event_type, event_date, reason, return_info) ==
    IF \E r \in regs : r.user_id = user_id /\ r.event_date = event_date
    THEN regs
    ELSE regs \cup {RegRow(id, user_id, event_type, event_date, reason, return_info)}
\* INSERT INTO registrations ... ON CONFLICT (user_id, event_date) DO UPDATE SET
\* event_type, reason, return_info; id is the next value of the sequence
insert_registration(regs, id, user_id, event_type, event_date, reason, return_info) ==
    IF Conflicting(regs, user_id, event_date) = {}
    THEN regs \cup {RegRow(id, user_id, event_type, event_date, reason, return_info)}
    ELSE {IF r \in Conflicting(regs, user_id, event_date)
          THEN [r EXCEPT !.event_type = event_type, !.reason = reason,
                         !.return_info = return_info]
          ELSE r : r \in regs}

\* SELECT * FROM registrations WHERE user_id AND event_date >= date.today()
get_user_registrations(regs, user_id, today) ==
    {r \in regs : r.user_id = user_id /\ r.event_date >= today}

\* mutant: DELETE ... WHERE id <= reg_id
delete_registration_UpTo(regs, reg_id) == {r \in regs : r.id > reg_id}
\* DELETE FROM registrations WHERE id
delete_registration(regs, reg_id) == {r \in regs : r.id # reg_id}

\* mutant: > in place of >=
FutureRegistrations_Strict(regs, today) == {r \in regs : r.event_date > today}
\* the rows DELETE FROM registrations WHERE event_date >= date.today() removes
FutureRegistrations(regs, today) == {r \in regs : r.event_date >= today}
clear_future_registrations(regs, today) == regs \ FutureRegistrations(regs, today)

RankRow(id, name) == [id |-> id, name |-> name]
\* SELECT name FROM ranks
get_all_ranks(table) == {r.name : r \in table}
\* INSERT INTO ranks (name) VALUES (rank_name.lower()); UNIQUE name
RankExists(table, rank_name) == lower(rank_name) \in get_all_ranks(table)
add_rank(table, id, rank_name) ==
    IF RankExists(table, rank_name) THEN table
    ELSE table \cup {RankRow(id, lower(rank_name))}
\* mutant: the guard is missing
RankInUse_Never(table, rank_name) == FALSE
\* SELECT COUNT(*) FROM users WHERE rank = rank_name
RankInUse(table, rank_name) == \E u \in DOMAIN table : table[u].rank = rank_name
\* DELETE FROM ranks WHERE name = rank_name
delete_rank(table, rank_name) == {r \in table : r.name # rank_name}

----------------------------------------------------------------------------
(* Conversation states, payloads and inputs *)

END == "END"
REG_RANK == "REG_RANK"
REG_SURNAME == "REG_SURNAME"
REG_FIRSTNAME == "REG_FIRSTNAME"
REG_GROUP == "REG_GROUP"
MAIN_MENU == "MAIN_MENU"
CHOOSE_DATE == "CHOOSE_DATE"
CHOOSE_TYPE == "CHOOSE_TYPE"
CHOOSE_DOVOBE_REASON == "CHOOSE_DOVOBE_REASON"
CHOOSE_DOZVIL_TIME == "CHOOSE_DOZVIL_TIME"

\* ADMIN_IDS and API_KEY of the environment
ADMIN_IDS == {1}
API_KEY == "secret"
ApiKeys == {API_KEY, "wrong"}

\* default_ranks of migrate_database
default_ranks ==
    << <<"s","o","l","d","a","t">>,
       <<"s","t","."," ","s","o","l","d","a","t">>,
       <<"m","o","l","o","d","s","h","y","i"," ","s","e","r","z","h","a","n","t">>,
       <<"s","e","r","z","h","a","n","t">> >>

\* texts a user sends at the registration steps: accepted and refused ones
RankText == <<"S","o","l","d","a","t">>       \* the keyboard label r.capitalize()
SurnameText == <<" ","s","h","e","v","c","h","e","n","k","o"," ">>
FirstnameText == <<"t","a","r","a","s">>
GroupText == <<" ","3","1","1">>
RankTexts ==
    { RankText,
      <<"G","e","n","e","r","a","l">> }       \* no rank of the catalog
SurnameTexts ==
    { SurnameText,
      <<"x">>,                                \* shorter than 2
      <<"i","v","4","n">> }                   \* not letters only
FirstnameTexts ==
    { FirstnameText,
      <<"1","2">>,                            \* no word character but digits
      <<" ">> }                               \* empty once stripped
GroupTexts ==
    { GroupText,
      <<"3","1","a">>,                        \* not digits only
      <<"1","2","3","4","5","6">> }           \* longer than 5

\* the two labels of the main menu keyboard
BOOK_LEAVE == "Zapysatys na zvilnennia"
MY_RECORDS == "Moi zapysy"
MenuTexts == {BOOK_LEAVE, MY_RECORDS}

ZVYCHAINE == "Zvychaine"
DOBOVE == "Dobove"

DatePayloads(dates) ==
    {<<"calendar">>, <<"nav", 0, 1>>} \cup {<<"day", d>> : d \in dates}
TypePayloads ==
    {<<"type", ZVYCHAINE>>, <<"type", DOBOVE>>, <<"type", DOBOVE, "auto_saturday">>}
ReasonPayloads == {<<"reason", "raport">>, <<"reason", "dozvil">>}
TimePayloads == {<<"dozvil_time", "06", "00">>, <<"dozvil_time", "08", "00">>}
\* the buttons of the admin panel that change the store, and those that only show
DestructivePayloads ==
    {<<"admin", "clear_regs">>, <<"admin", "wipe_all">>}
    \cup {<<"admin", "u_del", u>> : u \in Users}
ViewPayloads ==
    {<<"admin", "main">>, <<"admin", "users_list">>, <<"admin", "cancel">>}
    \cup {<<"admin", a, u>> : a \in {"u_act", "u_edit"}, u \in Users}

\* rank names and user rows the HTTP facade is called with
ApiRankNames == { <<"s","e","r","z","h","a","n","t">>, <<"S","o","l","d","a","t">>,
                  <<"s","o","l","d","a","t">> }
ApiUserRows ==
    { UserRow(<<"k","a","p","i","t","a","n">>, <<"P",".", " ","B","o","s","s">>, <<"7">>) }

\* the answer to an event: the handler, what it answered, the chat (0: the HTTP
\* facade) and the number it reports
ReplyN(op, out, c, n) == [op |-> op, out |-> out, chat |-> c, n |-> n]
Reply(op, out, c) == ReplyN(op, out, c, 0)

----------------------------------------------------------------------------
(* Registration *)

SetChat(f, c, v) == [f EXCEPT ![c] = v]

\* a handler that refuses its input: it answers and returns the state it was in
Refuse_ClearsScratch(r) ==
    /\ reply' = r
    /\ state' = state
    /\ user_data' = SetChat(user_data, r.chat, EmptyDict)
Refuse(r) ==
    /\ reply' = r
    /\ UNCHANGED <<state, user_data>>

\* a handler that raises: the conversation state is kept, nothing more is done,
\* and the chat is sent nothing (no error handler is registered)
Raise(op, c, exc) == reply' = Reply(op, exc, c)

\* /start in any state, or any text outside a conversation
start_router(c) ==
    /\ user_data' = SetChat(user_data, c, EmptyDict)
    /\ IF UserExists(users, c)
       THEN /\ state' = SetChat(state, c, MAIN_MENU)
            /\ reply' = Reply("start_router", "main_menu", c)
       ELSE /\ state' = SetChat(state, c, REG_RANK)
            /\ reply' = Reply("start_router", "ask_rank", c)
    /\ UNCHANGED <<clock, tasks, keyboards, cancel_buttons, store>>

\* the valid rank of register_rank
RankAccepted(text) == lower(text) \in {lower(r) : r \in get_all_ranks(ranks)}

register_rank(c, text) ==
    /\ state[c] = REG_RANK
    /\ IF ~RankAccepted(text)
       THEN Refuse(Reply("register_rank", "invalid", c))
       ELSE /\ user_data' = SetChat(user_data, c, Put(user_data[c], "rank", lower(text)))
            /\ state' = SetChat(state, c, REG_SURNAME)
            /\ reply' = Reply("register_rank", "ask_surname", c)
    /\ UNCHANGED <<clock, tasks, keyboards, cancel_buttons, store>>

SurnameAccepted(text) == Len(strip(text)) >= 2 /\ SurnamePattern(strip(text))

register_surname(c, text) ==
    /\ state[c] = REG_SURNAME
    /\ IF ~SurnameAccepted(text)
       THEN Refuse(Reply("register_surname", "invalid", c))
       ELSE /\ user_data' = SetChat(user_data, c,
                                     Put(user_data[c], "surname", capitalize(strip(text))))
            /\ state' = SetChat(state, c, REG_FIRSTNAME)
            /\ reply' = Reply("register_surname", "ask_firstname", c)
    /\ UNCHANGED <<clock, tasks, keyboards, cancel_buttons, store>>

FirstnameAccepted(text) ==
    ~(Len(strip(text)) < 1 \/ (NoWordPattern(strip(text)) /\ ~HasLetter(strip(text))))

\* mutant: the initial is not upper-cased
full_name_RawInitial(text, surname) == <<strip(text)[1], ".", " ">> \o surname
\* f"{initial}. {surname}" with initial = raw_text[0].upper()
full_name(text, surname) == <<CharUpper(strip(text)[1]), ".", " ">> \o surname

register_firstname(c, text) ==
    /\ state[c] = REG_FIRSTNAME
    /\ IF ~FirstnameAccepted(text)
       THEN Refuse(Reply("register_firstname", "invalid", c))
       ELSE IF ~Has(user_data[c], "surname")
       THEN /\ Raise("register_firstname", c, "KeyError")
            /\ UNCHANGED <<state, user_data>>
       ELSE /\ user_data' = SetChat(user_data, c,
                   Put(user_data[c], "name", full_name(text, user_data[c]["surname"])))
            /\ state' = SetChat(state, c, REG_GROUP)
            /\ reply' = Reply("register_firstname", "ask_group", c)
    /\ UNCHANGED <<clock, tasks, keyboards, cancel_buttons, store>>

GroupAccepted(text) == ~(~isdigit(strip(text)) \/ Len(strip(text)) > 5)

register_group(c, text) ==
    /\ state[c] = REG_GROUP
    /\ IF ~GroupAccepted(text)
       THEN Refuse(Reply("register_group", "invalid", c)) /\ users' = users
       ELSE IF ~Has(user_data[c], "rank") \/ ~Has(user_data[c], "name")
       THEN /\ Raise("register_group", c, "KeyError")
            /\ UNCHANGED <<state, user_data, users>>
       ELSE /\ users' = insert_user(users, c, user_data[c]["rank"],
                                    user_data[c]["name"], strip(text))
            /\ user_data' = SetChat(user_data, c, EmptyDict)
            /\ state' = SetChat(state, c, MAIN_MENU)
            /\ reply' = Reply("register_group", "registered", c)
    /\ UNCHANGED <<clock, tasks, keyboards, cancel_buttons, registrations, reg_seq, ranks, rank_seq>>

----------------------------------------------------------------------------
(* Leave booking *)

\* the payloads of the cells create_calendar renders as selectable: every day
\* that is not before today; all other cells carry 'ignore'
create_calendar(today) == {<<"day", d>> : d \in {x \in Dates : ~(x < today)}}

\* the payloads of the date keyboard of the main menu: today, tomorrow, calendar
DateKeyboard(today) == {<<"day", today>>, <<"day", today + 1>>, <<"calendar">>}

handle_menu_choice(c, text) ==
    /\ state[c] = MAIN_MENU
    /\ IF text = BOOK_LEAVE
       THEN /\ state' = SetChat(state, c, CHOOSE_DATE)
            /\ reply' = Reply("handle_menu_choice", "date_keyboard", c)
       ELSE /\ state' = state
            /\ reply' = ReplyN("handle_menu_choice", "my_records", c,
                               Cardinality(get_user_registrations(registrations, c, HostToday)))
    /\ UNCHANGED <<clock, tasks, keyboards, store, user_data>>

\* the keyboard of release types the date handler renders for the date
TypeKeyboard(d) == IF weekday(d) = SATURDAY THEN "type_keyboard_saturday" ELSE "type_keyboard"

\* mutant: a 'day:' selection is stored whatever the verdict
date_callback_handler_Unchecked(c, data) ==
    /\ state[c] = CHOOSE_DATE
    /\ IF data[1] # "day"
       THEN /\ reply' = Reply("date_callback_handler", "calendar", c)
            /\ UNCHANGED <<state, user_data>>
       ELSE /\ user_data' = SetChat(user_data, c,
                                     Put(user_data[c], "selected_date", data[2]))
            /\ state' = SetChat(state, c, CHOOSE_TYPE)
            /\ reply' = ReplyN("date_callback_handler", TypeKeyboard(data[2]), c, data[2])
    /\ UNCHANGED <<clock, tasks, cancel_buttons, store>>

date_callback_handler(c, data) ==
    /\ state[c] = CHOOSE_DATE
    /\ IF data[1] # "day"
       THEN /\ reply' = Reply("date_callback_handler", "calendar", c)
            /\ UNCHANGED <<state, user_data>>
       ELSE LET verdict == Verdict(nowDay, nowHour, nowSub, data[2]) IN
            IF verdict # "ok"
            THEN Refuse(ReplyN("date_callback_handler", verdict, c, data[2]))
            ELSE /\ user_data' = SetChat(user_data, c,
                                          Put(user_data[c], "selected_date", data[2]))
                 /\ state' = SetChat(state, c, CHOOSE_TYPE)
                 /\ reply' = ReplyN("date_callback_handler", TypeKeyboard(data[2]), c, data[2])
    /\ UNCHANGED <<clock, tasks, cancel_buttons, store>>

\* mutant: the completed booking leaves the scratch as it is
save_registration_KeepsScratch(op, c, ud, reason, return_info) ==
    IF ~Has(ud, "event_type") \/ ~Has(ud, "selected_date")
    THEN /\ Raise(op, c, "KeyError")
         /\ user_data' = SetChat(user_data, c, ud)
         /\ UNCHANGED <<state, registrations, reg_seq>>
    ELSE IF ~UserExists(users, c)
    THEN /\ reg_seq < MaxRegSeq
         /\ reg_seq' = reg_seq + 1
         /\ Raise(op, c, "ForeignKeyViolation")
         /\ user_data' = SetChat(user_data, c, ud)
         /\ UNCHANGED <<state, registrations>>
    ELSE /\ reg_seq < MaxRegSeq
         /\ reg_seq' = reg_seq + 1
         /\ registrations' = insert_registration(registrations, reg_seq + 1, c,
                                 ud["event_type"], ud["selected_date"], reason, return_info)
         /\ user_data' = SetChat(user_data, c, ud)
         /\ state' = SetChat(state, c, MAIN_MENU)
         /\ reply' = ReplyN(op, "saved", c, ud["selected_date"])

\* save_registration with the scratch `ud` its caller leaves
save_registration(op, c, ud, reason, return_info) ==
    IF ~Has(ud, "event_type") \/ ~Has(ud, "selected_date")
    THEN \* KeyError
         /\ Raise(op, c, "KeyError")
         /\ user_data' = SetChat(user_data, c, ud)
         /\ UNCHANGED <<state, registrations, reg_seq>>
    ELSE IF ~UserExists(users, c)
    THEN \* ForeignKeyViolation, which insert_registration does not catch
         /\ reg_seq < MaxRegSeq
         /\ reg_seq' = reg_seq + 1
         /\ Raise(op, c, "ForeignKeyViolation")
         /\ user_data' = SetChat(user_data, c, ud)
         /\ UNCHANGED <<state, registrations>>
    ELSE /\ reg_seq < MaxRegSeq
         /\ reg_seq' = reg_seq + 1
         /\ registrations' = insert_registration(registrations, reg_seq + 1, c,
                                 ud["event_type"], ud["selected_date"], reason, return_info)
         /\ user_data' = SetChat(user_data, c, EmptyDict)
         /\ state' = SetChat(state, c, MAIN_MENU)
         /\ reply' = ReplyN(op, "saved", c, ud["selected_date"])

\* mutant: the regular release gets the return time of the Saturday one
REGULAR_RETURN_Saturday == <<"do", "08:30">>
\* the return times the handlers fix
REGULAR_RETURN == <<"do", "21:30">>
SATURDAY_RETURN == <<"do", "08:30">>
RAPORT_RETURN == <<"do", "06:00">>

choose_type(c, data) ==
    /\ state[c] = CHOOSE_TYPE
    /\ LET ud == Put(user_data[c], "event_type", data[2]) IN
       IF data[2] = ZVYCHAINE
       THEN save_registration("choose_type", c, ud, NULL, REGULAR_RETURN)
       ELSE IF Len(data) > 2
       THEN save_registration("choose_type", c, ud, "raport", SATURDAY_RETURN)
       ELSE /\ user_data' = SetChat(user_data, c, ud)
            /\ state' = SetChat(state, c, CHOOSE_DOVOBE_REASON)
            /\ reply' = Reply("choose_type", "reason_keyboard", c)
            /\ UNCHANGED <<registrations, reg_seq>>
    /\ UNCHANGED <<clock, tasks, cancel_buttons, users, ranks, rank_seq>>

choose_dovobe_reason(c, data) ==
    /\ state[c] = CHOOSE_DOVOBE_REASON
    /\ LET reason == IF data[2] = "raport" THEN "raport" ELSE "dozvil N.I."
           ud == Put(user_data[c], "reason", reason) IN
       IF reason = "raport"
       THEN save_registration("choose_dovobe_reason", c, ud, reason, RAPORT_RETURN)
       ELSE /\ user_data' = SetChat(user_data, c, ud)
            /\ state' = SetChat(state, c, CHOOSE_DOZVIL_TIME)
            /\ reply' = Reply("choose_dovobe_reason", "time_keyboard", c)
            /\ UNCHANGED <<registrations, reg_seq>>
    /\ UNCHANGED <<clock, tasks, keyboards, cancel_buttons, users, ranks, rank_seq>>

\* the label of the button of the return-time keyboard that carries the payload
\* ('До 06:00' for 'dozvil_time:06:00'), in the form of the stored return times
TimeLabel(data) == IF data[2] = "06" THEN <<"do", "06:00">> ELSE <<"do", "08:00">>

\* context.user_data.get('reason')
GetReason(ud) == IF Has(ud, "reason") THEN ud["reason"] ELSE NULL

choose_dozvil_time(c, data) ==
    /\ state[c] = CHOOSE_DOZVIL_TIME
    /\ save_registration("choose_dozvil_time", c, user_data[c],
                         GetReason(user_data[c]), <<"do", data[2]>>)
    /\ UNCHANGED <<clock, tasks, keyboards, cancel_buttons, users, ranks, rank_seq>>

\* mutant: /cancel keeps the scratch
cancel_KeepsScratch(c) ==
    /\ state[c] # END
    /\ user_data' = user_data
    /\ IF UserExists(users, c)
       THEN /\ state' = SetChat(state, c, MAIN_MENU)
            /\ reply' = Reply("cancel", "main_menu", c)
       ELSE /\ state' = SetChat(state, c, END)
            /\ reply' = Reply("cancel", "cancelled", c)
    /\ UNCHANGED <<clock, tasks, keyboards, cancel_buttons, store>>
\* /cancel inside a conversation
cancel(c) ==
    /\ state[c] # END
    /\ user_data' = SetChat(user_data, c, EmptyDict)
    /\ IF UserExists(users, c)
       THEN /\ state' = SetChat(state, c, MAIN_MENU)
            /\ reply' = Reply("cancel", "main_menu", c)
       ELSE /\ state' = SetChat(state, c, END)
            /\ reply' = Reply("cancel", "cancelled", c)
    /\ UNCHANGED <<clock, tasks, keyboards, cancel_buttons, store>>

\* the callback of a cancel button, in any state
cancel_registration(c, reg_id) ==
    /\ registrations' = delete_registration(registrations, reg_id)
    /\ reply' = ReplyN("cancel_registration", "deleted", c, reg_id)
    /\ UNCHANGED <<clock, tasks, keyboards, state, user_data, users, reg_seq, ranks, rank_seq>>

----------------------------------------------------------------------------
(* The webhook: a press on a release-type button, await by await *)

\* a process_update call in progress: the chat, the payload, the await it is
\* suspended at, and what the pressed message shows by now (the calls of a chat
\* that are in progress together are presses on one message)
Task(c, data, pc, shows) == [chat |-> c, data |-> data, pc |-> pc, shows |-> shows]
TasksOf(c) == {i \in DOMAIN tasks : tasks[i].chat = c}
Without(seq, i) == SubSeq(seq, 1, i - 1) \o SubSeq(seq, i + 1, Len(seq))

\* POST /webhook with a 'type:' callback: conv_handler finds choose_type for the
\* state the chat is in now, and choose_type runs up to `await query.answer()`
process_update(c, data) ==
    /\ Len(tasks) < MaxTask
    /\ state[c] = CHOOSE_TYPE
    /\ tasks' = Append(tasks,
                       Task(c, data, "answer",
                            IF TasksOf(c) = {} THEN "type_keyboard"
                            ELSE tasks[CHOOSE i \in TasksOf(c) : TRUE].shows))
    /\ reply' = Reply("process_update", "choose_type", c)
    /\ UNCHANGED <<clock, store, state, user_data, keyboards, cancel_buttons>>

\* query.edit_message_text sent by the call i: Telegram refuses an edit that
\* changes nothing (BadRequest, raised when the await returns); an accepted one
\* is what the message shows to the other calls
EditMessage(i, text) ==
    [j \in DOMAIN tasks |->
        IF j = i
        THEN [tasks[i] EXCEPT !.pc = IF tasks[i].shows = text THEN "not_modified" ELSE text]
        ELSE IF tasks[j].chat = tasks[i].chat /\ tasks[i].shows # text
        THEN [tasks[j] EXCEPT !.shows = text]
        ELSE tasks[j]]

\* choose_type from the return of query.answer() to its next await: the
\* edit_message_text of save_registration or of the reason keyboard
choose_type_resume(i) ==
    /\ tasks[i].pc = "answer"
    /\ LET c == tasks[i].chat
           data == tasks[i].data
           ud == Put(user_data[c], "event_type", data[2]) IN
       /\ user_data' = SetChat(user_data, c, ud)
       /\ IF data[2] # ZVYCHAINE /\ Len(data) <= 2
          THEN /\ tasks' = EditMessage(i, "reason_keyboard")
               /\ reply' = Reply("choose_type", "edit_message_text", c)
               /\ UNCHANGED <<registrations, reg_seq>>
          ELSE IF ~Has(ud, "selected_date")
          THEN /\ Raise("choose_type", c, "KeyError")
               /\ tasks' = Without(tasks, i)
               /\ UNCHANGED <<registrations, reg_seq>>
          ELSE IF ~UserExists(users, c)
          THEN /\ reg_seq < MaxRegSeq
               /\ reg_seq' = reg_seq + 1
               /\ Raise("choose_type", c, "ForeignKeyViolation")
               /\ tasks' = Without(tasks, i)
               /\ UNCHANGED registrations
          ELSE /\ reg_seq < MaxRegSeq
               /\ reg_seq' = reg_seq + 1
               /\ registrations' =
                     IF data[2] = ZVYCHAINE
                     THEN insert_registration(registrations, reg_seq + 1, c, ud["event_type"],
                                              ud["selected_date"], NULL, REGULAR_RETURN)
                     ELSE insert_registration(registrations, reg_seq + 1, c, ud["event_type"],
                                              ud["selected_date"], "raport", SATURDAY_RETURN)
               /\ tasks' = EditMessage(i, "saved")
               /\ reply' = Reply("choose_type", "edit_message_text", c)
    /\ UNCHANGED <<clock, users, ranks, rank_seq, state, keyboards, cancel_buttons>>

\* choose_type from the return of edit_message_text to its return, and the
\* conversation state conv_handler then stores
choose_type_return(i) ==
    /\ tasks[i].pc \in {"saved", "reason_keyboard", "not_modified"}
    /\ LET c == tasks[i].chat IN
       IF tasks[i].pc = "not_modified"
       THEN /\ Raise("choose_type", c, "BadRequest")
            /\ UNCHANGED <<state, user_data>>
       ELSE IF tasks[i].pc = "saved"
       THEN /\ user_data' = SetChat(user_data, c, EmptyDict)
            /\ state' = SetChat(state, c, MAIN_MENU)
            /\ reply' = Reply("choose_type", "saved", c)
       ELSE /\ state' = SetChat(state, c, CHOOSE_DOVOBE_REASON)
            /\ reply' = Reply("choose_type", "reason_keyboard", c)
            /\ user_data' = user_data
    /\ tasks' = Without(tasks, i)
    /\ UNCHANGED <<clock, store, keyboards, cancel_buttons>>

----------------------------------------------------------------------------
(* Admin panel *)

\* mutant: the allowlist is not looked at
IsAdmin_Anyone(c) == TRUE
\* update.effective_user.id in ADMIN_IDS, looked up when the handler runs
IsAdmin(c) == c \in ADMIN_IDS

\* /admin, in any state
admin_panel(c) ==
    /\ IF ~IsAdmin(c)
       THEN reply' = Reply("admin_panel", "nothing", c)
       ELSE reply' = Reply("admin_panel", "admin_menu", c)
    /\ UNCHANGED <<clock, tasks, keyboards, cancel_buttons, store, state, user_data>>

\* mutant: TRUNCATE without RESTART IDENTITY
wipe_all_data_KeepIdentity ==
    /\ users' = EmptyDict
    /\ registrations' = {}
    /\ ranks' = {}
    /\ UNCHANGED <<reg_seq, rank_seq>>
\* TRUNCATE TABLE registrations, users, ranks RESTART IDENTITY
wipe_all_data ==
    /\ users' = EmptyDict
    /\ registrations' = {}
    /\ ranks' = {}
    /\ reg_seq' = 0
    /\ rank_seq' = 0

\* the callback of a button of the admin panel, in any state
admin_panel_callback(c, data) ==
    /\ IF ~IsAdmin(c)
       THEN /\ reply' = Reply("admin_panel_callback", "denied", c)
            /\ UNCHANGED store
       ELSE IF data[2] = "u_del"
       THEN /\ users' = delete_user_db(users, data[3])
            /\ registrations' = CascadeDelete(registrations, data[3])
            /\ reply' = ReplyN("admin_panel_callback", "user_deleted", c, data[3])
            /\ UNCHANGED <<reg_seq, ranks, rank_seq>>
       ELSE IF data[2] = "clear_regs"
       THEN /\ registrations' = clear_future_registrations(registrations, HostToday)
            /\ reply' = ReplyN("admin_panel_callback", "cleared", c,
                               Cardinality(FutureRegistrations(registrations, HostToday)))
            /\ UNCHANGED <<users, reg_seq, ranks, rank_seq>>
       ELSE IF data[2] = "wipe_all"
       THEN /\ wipe_all_data
            /\ reply' = Reply("admin_panel_callback", "wiped", c)
       ELSE /\ reply' = Reply("admin_panel_callback", data[2], c)
            /\ UNCHANGED store
    /\ UNCHANGED <<clock, tasks, keyboards, cancel_buttons, state, user_data>>

----------------------------------------------------------------------------
(* HTTP facade *)

Forbidden(op) == reply' = ReplyN(op, "http", 0, 403)

\* PUT /api/users/{user_id}
update_user_api(key, user_id, row) ==
    /\ IF key # API_KEY
       THEN Forbidden("update_user_api") /\ users' = users
       ELSE /\ users' = update_user_from_admin(users, user_id, row.rank, row.name,
                                               row.group_number)
            /\ reply' = ReplyN("update_user_api", "success", 0, user_id)
    /\ UNCHANGED <<clock, tasks, keyboards, cancel_buttons, registrations, reg_seq, ranks, rank_seq, state, user_data>>

\* POST /api/ranks
create_rank_api(key, name) ==
    /\ IF key # API_KEY
       THEN Forbidden("create_rank_api") /\ UNCHANGED <<ranks, rank_seq>>
       ELSE /\ rank_seq < MaxRankSeq
            /\ rank_seq' = rank_seq + 1
            /\ ranks' = add_rank(ranks, rank_seq + 1, strip(name))
            /\ IF RankExists(ranks, strip(name))
               THEN reply' = ReplyN("create_rank_api", "http", 0, 409)
               ELSE reply' = ReplyN("create_rank_api", "success", 0, rank_seq + 1)
    /\ UNCHANGED <<clock, tasks, keyboards, cancel_buttons, users, registrations, reg_seq, state, user_data>>

\* DELETE /api/ranks/{rank_name}
delete_rank_api(key, rank_name) ==
    /\ IF key # API_KEY
       THEN Forbidden("delete_rank_api") /\ ranks' = ranks
       ELSE IF RankInUse(users, rank_name)
       THEN /\ reply' = ReplyN("delete_rank_api", "http", 0, 409)
            /\ ranks' = ranks
       ELSE /\ ranks' = delete_rank(ranks, rank_name)
            /\ reply' = Reply("delete_rank_api", "success", 0)
    /\ UNCHANGED <<clock, tasks, keyboards, cancel_buttons, users, registrations, reg_seq, rank_seq, state, user_data>>

----------------------------------------------------------------------------
(* Clock *)

HostOffsets == {0, 2}
AllHours == 0..23
\* the hours at which events arrive where the hour itself is not the subject:
\* before the host's midnight, and in the afternoon before the cutoffs
SampleHours == {1, 15}

LaterHours(hours) == {h \in hours : h > nowHour}
Least(S) == CHOOSE x \in S : \A y \in S : x <= y

\* time passes: to a later instant of the same hour (when subs = 1: the instants
\* within an hour are told apart), to the next of the given hours, or to the
\* first of them on the next day, up to lastDay
TickTo(hours, subs, lastDay) ==
    /\ \/ /\ nowSub < subs
          /\ nowSub' = nowSub + 1 /\ UNCHANGED <<nowDay, nowHour>>
       \/ /\ LaterHours(hours) # {}
          /\ nowHour' = Least(LaterHours(hours)) /\ nowSub' = 0 /\ nowDay' = nowDay
       \/ /\ nowDay < lastDay
          /\ nowDay' = nowDay + 1 /\ nowHour' = Least(hours) /\ nowSub' = 0
    /\ reply' = Reply("tick", "", 0)
    /\ UNCHANGED <<hostOffset, store, state, user_data, tasks, keyboards, cancel_buttons>>

----------------------------------------------------------------------------
(* The system *)

\* no update is being processed
NoTasks == << >>
\* the two keyboards date_callback_handler renders
KeyboardKinds == {TypeKeyboard(d) : d \in Dates}
\* no message of a chat shows a keyboard
NoKeyboards == [c \in Users |-> [k \in KeyboardKinds |-> 0]]
\* no message of a chat shows a cancel button
NoButtons == [c \in Users |-> {}]

\* the database migrate_database leaves, and no conversation
Init ==
    /\ nowDay = 0 /\ nowHour = 0 /\ nowSub = 0
    /\ hostOffset \in HostOffsets
    /\ state = [c \in Users |-> END]
    /\ user_data = [c \in Users |-> EmptyDict]
    /\ users = EmptyDict
    /\ registrations = {}
    /\ reg_seq = 0
    /\ ranks = {RankRow(i, default_ranks[i]) : i \in 1..Len(default_ranks)}
    /\ rank_seq = Len(default_ranks)
    /\ reply = Reply("init", "", 0)
    /\ tasks = NoTasks
    /\ keyboards = NoKeyboards
    /\ cancel_buttons = NoButtons

\* the events of the registration dialogue of a chat
Registration(c) ==
    \/ start_router(c)
    \/ \E text \in RankTexts : register_rank(c, text)
    \/ \E text \in SurnameTexts : register_surname(c, text)
    \/ \E text \in FirstnameTexts : register_firstname(c, text)
    \/ \E text \in GroupTexts : register_group(c, text)
    \/ cancel(c)

\* the events of a chat up to the choice of a date
DateChoice(c, dates) ==
    \/ \E text \in MenuTexts : handle_menu_choice(c, text) /\ UNCHANGED cancel_buttons
    \/ \E data \in DatePayloads(dates) :
          date_callback_handler(c, data) /\ UNCHANGED keyboards

\* the events of a chat from the choice of the release type to the saved record
Completion(c, types, reasons) ==
    \/ \E data \in types : choose_type(c, data) /\ UNCHANGED keyboards
    \/ \E data \in reasons : choose_dovobe_reason(c, data)
    \/ \E reg_id \in 1..MaxRegSeq :
          cancel_registration(c, reg_id) /\ UNCHANGED cancel_buttons

RankApi ==
    \/ \E key \in ApiKeys, u \in Users, row \in ApiUserRows : update_user_api(key, u, row)
    \/ \E key \in ApiKeys, name \in ApiRankNames : create_rank_api(key, name)
    \/ \E key \in ApiKeys, name \in ApiRankNames : delete_rank_api(key, name)

(* One chat from its first message to the choice of a date, under a clock *)
(* that visits every hour.                                                *)
NextChat ==
    \/ TickTo(AllHours, 1, MaxDate)
    \/ Registration(MaxUser)
    \/ DateChoice(MaxUser, Dates)

SpecChat == Init /\ [][NextChat]_vars

(* The registration dialogues of all chats and the catalog of ranks. *)
NextReg ==
    \/ \E c \in Users : Registration(c)
    \/ RankApi

SpecReg == Init /\ [][NextReg]_vars

\* the row the registration dialogue stores for the accepted sample texts
RegisteredRow ==
    UserRow(<<"s","o","l","d","a","t">>,
            <<"T", ".", " ", "S","h","e","v","c","h","e","n","k","o">>,
            <<"3","1","1">>)

\* every chat has completed the registration dialogue and is at the main menu;
\* the host's clock is UTC, so its date is the day before until 02:00
InitStore ==
    /\ nowDay = 0 /\ nowHour = 0 /\ nowSub = 0
    /\ hostOffset = 2
    /\ state = [c \in Users |-> MAIN_MENU]
    /\ user_data = [c \in Users |-> EmptyDict]
    /\ users = [c \in Users |-> RegisteredRow]
    /\ registrations = {}
    /\ reg_seq = 0
    /\ ranks = {RankRow(i, default_ranks[i]) : i \in 1..Len(default_ranks)}
    /\ rank_seq = Len(default_ranks)
    /\ reply = Reply("init", "", 0)
    /\ tasks = NoTasks
    /\ keyboards = NoKeyboards
    /\ cancel_buttons = NoButtons

\* the dates chosen in SpecStore: the days its clock passes
StoreDates == 0..MaxStoreDay

\* the releases booked in SpecStore: the regular one and the 24-hour one by report
StoreTypes == {<<"type", ZVYCHAINE>>, <<"type", DOBOVE>>}
StoreReasons == {<<"reason", "raport">>}

\* the buttons of the admin panel pressed in SpecStore
StoreAdminPayloads == DestructivePayloads \cup {<<"admin", "users_list">>}

(* Registered chats booking and cancelling releases, and the admin panel. *)
NextStore ==
    \/ TickTo(SampleHours, 0, MaxStoreDay)
    \/ \E c \in Users : start_router(c)
    \/ \E c \in Users : cancel(c)
    \/ \E c \in Users : DateChoice(c, StoreDates)
    \/ \E c \in Users : Completion(c, StoreTypes, StoreReasons)
    \/ \E c \in Users, data \in StoreAdminPayloads : admin_panel_callback(c, data)

SpecStore == InitStore /\ [][NextStore]_vars

\* the buttons of the admin panel pressed in SpecWipe: no single user is deleted,
\* so a chat is without its Person only after a wipe
WipePayloads ==
    {<<"admin", "wipe_all">>, <<"admin", "clear_regs">>, <<"admin", "users_list">>}

(* The admin panel with the wipe, and what follows it: the rank "soldat"   *)
(* added again, chats registering again and booking a regular release for *)
(* the day after the first day.                                           *)
NextWipe ==
    \/ \E c \in Users : admin_panel(c)
    \/ \E c \in Users, data \in WipePayloads : admin_panel_callback(c, data)
    \/ create_rank_api(API_KEY, <<"s","o","l","d","a","t">>)
    \/ \E c \in Users : Registration(c)
    \/ \E c \in Users : DateChoice(c, {1})
    \/ \E c \in Users : choose_type(c, <<"type", ZVYCHAINE>>) /\ UNCHANGED keyboards

SpecWipe == InitStore /\ [][NextWipe]_vars

\* the date booked in SpecFlow: a Tuesday, chosen on the Monday before
FlowDates == {1}
\* the buttons of the keyboard rendered for that date
FlowTypes == {<<"type", ZVYCHAINE>>, <<"type", DOBOVE>>}

(* Every step of the registration and booking dialogues of the chats, and the *)
(* admin deleting a Person in the middle of them.                            *)
NextFlow ==
    \/ \E c \in Users : Registration(c)
    \/ \E c \in Users : DateChoice(c, FlowDates)
    \/ \E c \in Users, data \in FlowTypes : choose_type(c, data) /\ UNCHANGED keyboards
    \/ \E c \in Users, data \in ReasonPayloads : choose_dovobe_reason(c, data)
    \/ \E c \in Users, data \in TimePayloads : choose_dozvil_time(c, data)
    \/ \E c \in ADMIN_IDS, u \in Users \ ADMIN_IDS :
          admin_panel_callback(c, <<"admin", "u_del", u>>)

SpecFlow == InitStore /\ [][NextFlow]_vars

\* a message or a press that arrives when no press of the chat is being handled
Single(c) == TasksOf(c) = {}

(* Registered chats booking a release, the presses on the release-type *)
(* keyboard handled as the webhook handles them: each POST runs         *)
(* process_update at once, and the calls interleave at their awaits.    *)
NextWebhook ==
    \/ \E c \in Users, text \in MenuTexts :
          Single(c) /\ handle_menu_choice(c, text) /\ UNCHANGED cancel_buttons
    \/ \E c \in Users, data \in DatePayloads(FlowDates) :
          Single(c) /\ date_callback_handler(c, data) /\ UNCHANGED keyboards
    \/ \E c \in Users, data \in FlowTypes : process_update(c, data)
    \/ \E i \in DOMAIN tasks : choose_type_resume(i)
    \/ \E i \in DOMAIN tasks : choose_type_return(i)
    \/ \E c \in Users, data \in ReasonPayloads : Single(c) /\ choose_dovobe_reason(c, data)
    \/ \E c \in Users : Single(c) /\ cancel(c)

SpecWebhook == InitStore /\ [][NextWebhook]_vars

\* the buttons of the two release-type keyboards
TypeButtons(kind) ==
    IF kind = "type_keyboard_saturday"
    THEN {<<"type", ZVYCHAINE>>, <<"type", DOBOVE, "auto_saturday">>}
    ELSE {<<"type", ZVYCHAINE>>, <<"type", DOBOVE>>}

Shown(c, kind, n) == [keyboards EXCEPT ![c][kind] = @ + n]

\* a press on a button of the date keyboard: when date_callback_handler accepts
\* the date, its edit_message_text puts a release-type keyboard on display
DayButton(c, data) ==
    /\ date_callback_handler(c, data)
    /\ keyboards' = IF reply'.out \in KeyboardKinds
                    THEN Shown(c, reply'.out, 1)
                    ELSE keyboards
    /\ \A kind \in KeyboardKinds : keyboards'[c][kind] <= MaxShown

\* a press on a button of a release-type keyboard that is on display, of
\* whatever age: the edit_message_text of choose_type or save_registration
\* replaces that keyboard, unless the handler raised before it
TypeButton(c, kind, data) ==
    /\ keyboards[c][kind] > 0
    /\ data \in TypeButtons(kind)
    /\ choose_type(c, data)
    /\ keyboards' = IF reply'.out \in {"saved", "reason_keyboard"}
                    THEN Shown(c, kind, -1)
                    ELSE keyboards

\* the chat that books in SpecKeys
KeysChats == {MaxUser}

(* A registered chat booking releases on the first Monday for the Tuesday *)
(* and for the Saturday; a button can be pressed when a message of the    *)
(* chat shows it.                                                         *)
NextKeys ==
    \/ \E c \in KeysChats : handle_menu_choice(c, BOOK_LEAVE) /\ UNCHANGED cancel_buttons
    \/ \E c \in KeysChats, d \in {1, SATURDAY} : DayButton(c, <<"day", d>>)
    \/ \E c \in KeysChats, kind \in KeyboardKinds, data \in TypePayloads : TypeButton(c, kind, data)
    \/ \E c \in KeysChats, data \in ReasonPayloads : choose_dovobe_reason(c, data)
    \/ \E c \in KeysChats, data \in TimePayloads : choose_dozvil_time(c, data)
    \/ \E c \in KeysChats : cancel(c)

SpecKeys == InitStore /\ [][NextKeys]_vars

\* 'My records': every record listed is sent as a message of its own with the
\* button 'cancel:<id>'
MyRecords(c) ==
    /\ handle_menu_choice(c, MY_RECORDS)
    /\ cancel_buttons' =
          [cancel_buttons EXCEPT ![c] =
              @ \cup {r.id : r \in get_user_registrations(registrations, c, HostToday)}]

\* a press on a cancel button that is on display in the chat, of whatever age;
\* edit_message_text replaces the button
CancelButton(c, reg_id) ==
    /\ reg_id \in cancel_buttons[c]
    /\ cancel_registration(c, reg_id)
    /\ cancel_buttons' = [cancel_buttons EXCEPT ![c] = @ \ {reg_id}]

(* Chats booking a regular release for the Tuesday, listing their records   *)
(* and pressing the cancel buttons they were sent; the admin wiping the     *)
(* store, after which the rank "soldat" is added and chats register again.  *)
NextCancel ==
    \/ \E c \in Users : handle_menu_choice(c, BOOK_LEAVE) /\ UNCHANGED cancel_buttons
    \/ \E c \in Users : date_callback_handler(c, <<"day", 1>>) /\ UNCHANGED keyboards
    \/ \E c \in Users : choose_type(c, <<"type", ZVYCHAINE>>) /\ UNCHANGED keyboards
    \/ \E c \in Users : MyRecords(c)
    \/ \E c \in Users, reg_id \in 1..MaxRegSeq : CancelButton(c, reg_id)
    \/ \E c \in ADMIN_IDS : admin_panel_callback(c, <<"admin", "wipe_all">>)
    \/ create_rank_api(API_KEY, <<"s","o","l","d","a","t">>)
    \/ \E c \in Users : Registration(c)

SpecCancel == InitStore /\ [][NextCancel]_vars

----------------------------------------------------------------------------
(* Claims *)

\* the date handler answered a 'day:' selection of the date reply.n
DaySelected == reply.op = "date_callback_handler" /\ reply.out # "calendar"
\* ... and accepted it
DayAccepted == DaySelected /\ reply.out \in {"type_keyboard", "type_keyboard_saturday"}

\* C1: a 'day:' selection of a date before today (Kyiv) is answered "past" and
\* refused - the chat stays in CHOOSE_DATE, no date is stored - at whatever
\* hour the selection arrives.
C1_PastRejected ==
    (DaySelected /\ reply.n < KyivToday) =>
        /\ reply.out = "past"
        /\ state[reply.chat] = CHOOSE_DATE
        /\ ~Has(user_data[reply.chat], "selected_date")

\* yesterday is refused in the first instant of the day
C1_Witness ==
    /\ DaySelected /\ reply.out = "past"
    /\ reply.n = KyivToday - 1
    /\ nowHour = 0 /\ nowSub = 0

\* C2 as stated: on every day, today is open before 16:00 and closed from 16:00 on.
C2_Original ==
    (DaySelected /\ reply.n = KyivToday) =>
        (DayAccepted <=> nowHour < SAME_DAY_CUTOFF_HOUR)

Open(day, hour, sub, d) == Verdict(day, hour, sub, d) = "ok"

\* C2, amended: on a Monday to Thursday, today is open exactly before 16:00;
\* on a Friday, Saturday or Sunday today is closed at every hour; and on every
\* day, once today is closed it stays closed for the rest of the day.
C2_SameDayCutoff ==
    /\ [] ((DaySelected /\ reply.n = KyivToday) =>
             (DayAccepted <=> (nowHour < 16 /\ weekday(KyivToday) \in 0..3)))
    /\ [][ (nowDay' = nowDay /\ ~Open(nowDay, nowHour, nowSub, nowDay))
              => ~Open(nowDay', nowHour', nowSub', nowDay') ]_vars

\* today is refused in the first instant of 16:00 on a Tuesday
C2_Witness ==
    /\ DaySelected /\ reply.out = "today_closed"
    /\ reply.n = KyivToday /\ weekday(KyivToday) = 1
    /\ nowHour = 16 /\ nowSub = 0

\* the Thursday of the calendar week (Monday to Sunday) of the date
ThursdayOfWeek(d) == 7 * (d \div 7) + 3
\* now is not later than 17:00:00 of the day
NotAfter1700(day) ==
    \/ nowDay < day
    \/ nowDay = day /\ nowHour < 17
    \/ nowDay = day /\ nowHour = 17 /\ nowSub = 0
WeekendDates == {d \in Dates : weekday(d) \in {4, 5, 6}}

\* C3: the deadline of a Friday, Saturday or Sunday is the Thursday of its week
\* at 17:00; a selection of such a date is accepted exactly when now is not
\* later than that instant, and at every instant the dates of one weekend are
\* all open or all closed.
C3_WeekendDeadline ==
    /\ \A d \in WeekendDates : deadline_date(d) = ThursdayOfWeek(d)
    /\ (DaySelected /\ reply.n \in WeekendDates) =>
          (DayAccepted <=> NotAfter1700(ThursdayOfWeek(reply.n)))
    /\ \A d1, d2 \in WeekendDates :
          d1 \div 7 = d2 \div 7 =>
             (Open(nowDay, nowHour, nowSub, d1) <=> Open(nowDay, nowHour, nowSub, d2))

\* a Sunday is accepted on its Thursday at 17:00:00 sharp
C3_Witness ==
    /\ DayAccepted /\ weekday(reply.n) = 6
    /\ nowDay = ThursdayOfWeek(reply.n) /\ nowHour = 17 /\ nowSub = 0

\* C4: an event that is refused - a date that is past, closed for today or
\* closed for the weekend, or a registration text that fails validation -
\* changes neither the state of any chat nor its scratch, nor a row of users
\* or registrations.
C4_RejectedIsNoOp ==
    [][ reply'.out \in {"past", "today_closed", "weekend_closed", "invalid"} =>
           /\ state' = state
           /\ user_data' = user_data
           /\ users' = users
           /\ registrations' = registrations ]_vars

\* scenario C: Tuesday after 16:00, today is refused, the chat is still choosing
\* a date and there is no record; the registration before it refused a text
C4_Witness ==
    /\ DaySelected /\ reply.out = "today_closed"
    /\ weekday(KyivToday) = 1 /\ nowHour = 16 /\ nowSub = 1
    /\ state[reply.chat] = CHOOSE_DATE
    /\ user_data[reply.chat] = EmptyDict
    /\ registrations = {}

\* C5: no two rows of registrations have the same person and date.
C5_OnePerPersonDate ==
    \A r1, r2 \in registrations :
        (r1.user_id = r2.user_id /\ r1.event_date = r2.event_date) => r1 = r2

\* a date was booked again: the row saved last is older than the sequence
C5_Witness ==
    /\ reply.out = "saved"
    /\ \E r \in registrations :
          r.user_id = reply.chat /\ r.event_date = reply.n /\ r.id < reg_seq
    /\ Cardinality(registrations) = 1

\* the completion just made replaced the row r of (c, d) by one of the same id
\* with the given type, reason and return time, and touched no other row
Upserted(c, d, event_type, reason, return_info) ==
    \A r \in Conflicting(registrations, c, d) :
        /\ registrations' =
              (registrations \ {r}) \cup {RegRow(r.id, c, event_type, d, reason, return_info)}
        /\ (r.event_type = event_type /\ r.reason = reason /\ r.return_info = return_info)
              => registrations' = registrations

\* C6: a completed booking of a (person, date) that has a row updates that row
\* in place: type, reason and return time are the new ones, the id is kept,
\* the other rows are untouched; with the data of the row, nothing changes.
C6_UpsertInPlace ==
    [][ \A c \in Users :
          /\ \A data \in TypePayloads :
                (choose_type(c, data) /\ reply'.out = "saved") =>
                   Upserted(c, user_data[c]["selected_date"], data[2],
                            IF data[2] = ZVYCHAINE THEN NULL ELSE "raport",
                            IF data[2] = ZVYCHAINE THEN <<"do", "21:30">>
                                                   ELSE <<"do", "08:30">>)
          /\ \A data \in ReasonPayloads :
                (choose_dovobe_reason(c, data) /\ reply'.out = "saved") =>
                   Upserted(c, user_data[c]["selected_date"], DOBOVE,
                            "raport", <<"do", "06:00">>) ]_vars

\* a regular release was booked again as a 24-hour one
C6_Witness ==
    /\ reply.op = "choose_dovobe_reason" /\ reply.out = "saved"
    /\ \E r \in registrations :
          /\ r.user_id = reply.chat /\ r.event_date = reply.n
          /\ r.id < reg_seq /\ r.event_type = DOBOVE

\* the text holds the other text, letter case aside
Contains(s, sub) ==
    \E i \in 1..(Len(s) - Len(sub) + 1) :
        lower(SubSeq(s, i, i + Len(sub) - 1)) = lower(sub)

Registered == reply.op = "register_group" /\ reply.out = "registered"

C8_RegularBooking ==
    [][ \A c \in Users :
          /\ handle_menu_choice(c, BOOK_LEAVE) => state'[c] = CHOOSE_DATE
          /\ \A d \in Dates :
                (date_callback_handler(c, <<"day", d>>) /\ Open(nowDay, nowHour, nowSub, d))
                   => (state'[c] = CHOOSE_TYPE /\ user_data'[c]["selected_date"] = d)
          /\ (choose_type(c, <<"type", ZVYCHAINE>>) /\ UserExists(users, c)) =>
                /\ \E r \in registrations' :
                      /\ r.user_id = c
                      /\ r.event_date = user_data[c]["selected_date"]
                      /\ r.event_type = ZVYCHAINE
                      /\ r.reason = NULL
                      /\ r.return_info = <<"do", "21:30">>
                /\ user_data'[c] = EmptyDict
                /\ state'[c] = MAIN_MENU ]_vars

\* scenario B: a new regular record for tomorrow, the chat back in the main menu
C8_Witness ==
    /\ reply.op = "choose_type" /\ reply.out = "saved"
    /\ reply.n = KyivToday + 1
    /\ \E r \in registrations :
          /\ r.user_id = reply.chat /\ r.event_date = reply.n /\ r.id = reg_seq
          /\ r.event_type = ZVYCHAINE /\ r.reason = NULL
    /\ state[reply.chat] = MAIN_MENU

\* C9: DELETE /api/ranks/{name} removes the rank when no Person has it, and
\* answers 409 and changes no rank and no Person when a Person has it.
C9_RankDeleteGuard ==
    [][ \A name \in ApiRankNames :
          delete_rank_api(API_KEY, name) =>
             /\ users' = users
             /\ IF \E u \in DOMAIN users : users[u].rank = name
                THEN reply'.n = 409 /\ ranks' = ranks
                ELSE reply'.out = "success" /\ ranks' = {r \in ranks : r.name # name} ]_vars

\* the rank of a registered Person was refused and is still in the catalog
C9_Witness ==
    /\ reply.op = "delete_rank_api" /\ reply.n = 409
    /\ \E u \in DOMAIN users : users[u].rank = <<"s","o","l","d","a","t">>
    /\ \E r \in ranks : r.name = <<"s","o","l","d","a","t">>

\* C10: "delete future records" of the admin panel removes exactly the rows
\* dated on or after today - the date.today() the action runs with - reports
\* their number, and keeps every row dated before it.
C10_ClearFuture ==
    [][ \A c \in ADMIN_IDS :
          admin_panel_callback(c, <<"admin", "clear_regs">>) =>
             /\ registrations' = {r \in registrations : r.event_date < HostToday}
             /\ reply'.out = "cleared"
             /\ reply'.n = Cardinality({r \in registrations : r.event_date >= HostToday}) ]_vars

\* one record of today was removed and one of yesterday is left
C10_Witness ==
    /\ reply.out = "cleared" /\ reply.n = 1
    /\ Cardinality(registrations) = 1
    /\ \A r \in registrations : r.event_date < HostToday

\* the admin pressed "wipe all"
AdminWipe == \E c \in ADMIN_IDS : admin_panel_callback(c, <<"admin", "wipe_all">>)

C12_NonAdminDenied ==
    [][ \A c \in Users \ ADMIN_IDS :
          admin_panel(c) =>
             /\ reply'.out = "denied"
             /\ state' = state /\ user_data' = user_data
             /\ UNCHANGED store ]_vars

\* C13: whoever presses a button of the admin panel (list users, delete user,
\* delete future records, wipe all) without being in ADMIN_IDS when the callback
\* runs is answered with the denial, and no Person, LeaveRecord or Rank is
\* created, changed or deleted.
C13_CallbackChecksAllowlist ==
    [][ \A c \in Users \ ADMIN_IDS, data \in StoreAdminPayloads :
          admin_panel_callback(c, data) =>
             /\ reply'.out = "denied"
             /\ users' = users /\ registrations' = registrations /\ ranks' = ranks
             /\ reg_seq' = reg_seq /\ rank_seq' = rank_seq ]_vars

\* a chat outside ADMIN_IDS was denied while there were Persons and LeaveRecords
C13_Witness ==
    /\ reply.op = "admin_panel_callback" /\ reply.out = "denied"
    /\ reply.chat \notin ADMIN_IDS
    /\ DOMAIN users = Users
    /\ \E r \in registrations : r.user_id \in ADMIN_IDS
    /\ \E r \in registrations : r.user_id = reply.chat

ConversationStates ==
    {REG_RANK, REG_SURNAME, REG_FIRSTNAME, REG_GROUP, MAIN_MENU,
     CHOOSE_DATE, CHOOSE_TYPE, CHOOSE_DOVOBE_REASON, CHOOSE_DOZVIL_TIME}

\* C14: in every conversation state /cancel and /start are taken, clear the
\* scratch of the chat and route by its Person: /cancel to MAIN_MENU or, without
\* a Person, out of the conversation; /start to MAIN_MENU or to REG_RANK.
C14_CancelAndStart ==
    /\ [](\A c \in Users : state[c] \in ConversationStates =>
              (ENABLED cancel(c)) /\ (ENABLED start_router(c)))
    /\ [][ \A c \in Users :
             /\ cancel(c) =>
                  /\ user_data'[c] = EmptyDict
                  /\ state'[c] = IF c \in DOMAIN users THEN MAIN_MENU ELSE END
             /\ start_router(c) =>
                  /\ user_data'[c] = EmptyDict
                  /\ state'[c] = IF c \in DOMAIN users THEN MAIN_MENU ELSE REG_RANK ]_vars

\* /cancel in the middle of a booking, with a date in the scratch, by a chat
\* whose Person was deleted meanwhile; the other chat is choosing a return time
C14_Witness ==
    /\ reply.op = "cancel" /\ reply.out = "cancelled"
    /\ state[reply.chat] = END /\ user_data[reply.chat] = EmptyDict
    /\ \E c \in Users : state[c] = CHOOSE_DOZVIL_TIME /\ Has(user_data[c], "reason")

\* C15: the callback of a cancel button is taken in every conversation state and
\* outside the conversation; it deletes the LeaveRecord with the given id, if
\* there is one, and leaves every other LeaveRecord, the Persons, the Ranks and
\* the state and scratch of the chat as they were.
C15_SelfCancel ==
    /\ [](\A c \in Users, reg_id \in 1..MaxRegSeq : ENABLED cancel_registration(c, reg_id))
    /\ [][ \A c \in Users, reg_id \in 1..MaxRegSeq :
             cancel_registration(c, reg_id) =>
                /\ registrations' = {r \in registrations : r.id # reg_id}
                /\ users' = users /\ ranks' = ranks
                /\ state' = state /\ user_data' = user_data ]_vars

\* a record was cancelled by a chat that is choosing a release type: the id is
\* gone, a record with a later id is still there
C15_Witness ==
    /\ reply.op = "cancel_registration"
    /\ state[reply.chat] = CHOOSE_TYPE /\ Has(user_data[reply.chat], "selected_date")
    /\ reply.n < reg_seq
    /\ \A r \in registrations : r.id # reply.n
    /\ \E r \in registrations : r.id > reply.n

\* C16: deleting a Person from the admin panel, or wiping, removes every
\* LeaveRecord of that Person and no other, and in every reachable state the
\* owner of every LeaveRecord is an existing Person.
C16_RecordsHaveOwner ==
    /\ [](\A r \in registrations : r.user_id \in DOMAIN users)
    /\ [][ \A c \in ADMIN_IDS :
             /\ \A u \in Users :
                  admin_panel_callback(c, <<"admin", "u_del", u>>) =>
                     /\ u \notin DOMAIN users'
                     /\ registrations' = {r \in registrations : r.user_id # u}
             /\ admin_panel_callback(c, <<"admin", "wipe_all">>) =>
                  (users' = EmptyDict /\ registrations' = {}) ]_vars

\* a booking was completed by a chat whose Person had been deleted after the
\* date was chosen: nothing was written for it, the record of the other is kept
C16_Witness ==
    /\ reply.op = "choose_type" /\ reply.out = "ForeignKeyViolation"
    /\ reply.chat \notin DOMAIN users
    /\ registrations # {}
    /\ \A r \in registrations : r.user_id # reply.chat

\* C17: a booking step that runs while the scratch lacks a field it needs
\* answers with the session-expired notice and puts the chat in MAIN_MENU with an
\* empty scratch; it does not raise and it writes no LeaveRecord.
C17_SessionExpired ==
    [][ \A i \in DOMAIN tasks :
          (choose_type_resume(i) /\ ~Has(user_data[tasks[i].chat], "selected_date")) =>
             /\ reply'.out = "session_expired"
             /\ state'[tasks[i].chat] = MAIN_MENU
             /\ user_data'[tasks[i].chat] = EmptyDict
             /\ registrations' = registrations ]_vars

\* C18: no two handlers of one chat are in progress at once: an update of a chat
\* is not dispatched while an earlier one of that chat is still being handled.
C18_OneAtATimePerChat ==
    \A i, j \in DOMAIN tasks : i # j => tasks[i].chat # tasks[j].chat

\* C19: the automatic 24-hour completion (reason "raport", return "do 08:30",
\* no question about the reason) happens only for a stored date that is a
\* Saturday, and a 24-hour booking for a Saturday is never asked for its reason,
\* also when the button pressed is on a keyboard rendered for another date.
C19_SaturdayShortCircuit ==
    /\ \A r \in registrations :
          r.return_info = <<"do", "08:30">> => weekday(r.event_date) = SATURDAY
    /\ \A c \in Users :
          state[c] = CHOOSE_DOVOBE_REASON =>
             weekday(user_data[c]["selected_date"]) # SATURDAY

\* C20: in the 24-hour flow the reason "raport" completes the booking at once
\* with the return time "do 06:00"; the reason "dozvil" leads to
\* CHOOSE_DOZVIL_TIME, where a press on 'Do 06:00' or 'Do 08:00' completes the
\* booking with a LeaveRecord whose reason is "dozvil N.I." and whose return
\* info is the label pressed.
C20_DispensationFlow ==
    [][ \A c \in Users :
          /\ (choose_dovobe_reason(c, <<"reason", "raport">>) /\ reply'.out = "saved") =>
                /\ state'[c] = MAIN_MENU
                /\ \E r \in registrations' :
                      /\ r.user_id = c /\ r.event_date = user_data[c]["selected_date"]
                      /\ r.reason = "raport" /\ r.return_info = <<"do", "06:00">>
          /\ choose_dovobe_reason(c, <<"reason", "dozvil">>) =>
                state'[c] = CHOOSE_DOZVIL_TIME
          /\ \A data \in TimePayloads :
                (choose_dozvil_time(c, data) /\ reply'.out = "saved") =>
                   /\ state'[c] = MAIN_MENU
                   /\ \E r \in registrations' :
                         /\ r.user_id = c /\ r.event_date = user_data[c]["selected_date"]
                         /\ r.reason = "dozvil N.I."
                         /\ r.return_info = TimeLabel(data) ]_vars

\* C21: every date option rendered as selectable is eligible at render time:
\* the day payloads of the date keyboard handle_menu_choice has just sent, and
\* those of the calendar date_callback_handler has just sent, are dates the
\* verdict is "ok" for at that instant.
C21_RenderedEligible ==
    /\ (reply.op = "handle_menu_choice" /\ reply.out = "date_keyboard") =>
          \A d \in Dates : <<"day", d>> \in DateKeyboard(KyivToday) =>
                              Open(nowDay, nowHour, nowSub, d)
    /\ (reply.op = "date_callback_handler" /\ reply.out = "calendar") =>
          \A d \in Dates : <<"day", d>> \in create_calendar(KyivToday) =>
                              Open(nowDay, nowHour, nowSub, d)

\* C22: the "today" of the 'My records' listing and of "delete future records"
\* is the Kyiv date the eligibility check uses: the listing shows exactly the
\* chat's records dated on or after KyivToday, and the bulk delete removes
\* exactly the records dated on or after KyivToday, also when the host's date
\* is another one.
C22_OrganizationalToday ==
    [][ /\ \A c \in Users :
              handle_menu_choice(c, MY_RECORDS) =>
                 reply'.n = Cardinality({r \in registrations :
                                            r.user_id = c /\ r.event_date >= KyivToday})
        /\ \A c \in ADMIN_IDS :
              admin_panel_callback(c, <<"admin", "clear_regs">>) =>
                 registrations' = {r \in registrations : r.event_date < KyivToday} ]_vars

\* C23: in every reachable state the rank of every Person is the name of a
\* Rank of the catalog, whatever the interleaving of a registration in
\* progress, a rank deletion and a user update through the HTTP facade.
C23_RanksInCatalog ==
    \A u \in DOMAIN users : users[u].rank \in get_all_ranks(ranks)

\* C24: a press on a cancel button by a chat deletes only LeaveRecords of that
\* chat, after any sequence of operations - a wipe that restarts the record
\* ids and new bookings included - for every cancel button on display.
C24_CancelOwnOnly ==
    [][ \A c \in Users, reg_id \in 1..MaxRegSeq :
          CancelButton(c, reg_id) =>
             \A r \in registrations \ registrations' : r.user_id = c ]_vars

\* C25 as stated: whenever the booking flow writes a LeaveRecord, its date is
\* open under the eligibility rules at the instant of the write.
C25_Original ==
    reply.out = "saved" => Open(nowDay, nowHour, nowSub, reply.n)

\* C25: the date of a LeaveRecord the booking flow writes is the date the chat
\* selected, and a date gets into the scratch of a chat only at an instant at
\* which it is open under the eligibility rules; the type, reason and
\* return-time steps write it without looking at the clock again.
C25_OpenAtSelection ==
    [][ \A c \in Users :
          /\ ( /\ Has(user_data'[c], "selected_date")
               /\ \/ ~Has(user_data[c], "selected_date")
                  \/ user_data[c]["selected_date"] # user_data'[c]["selected_date"] )
                => Open(nowDay, nowHour, nowSub, user_data'[c]["selected_date"])
          /\ (reply'.out = "saved" /\ reply'.chat = c) =>
                /\ Has(user_data[c], "selected_date")
                /\ reply'.n = user_data[c]["selected_date"]
                /\ \E r \in registrations' :
                      r.user_id = c /\ r.event_date = user_data[c]["selected_date"] ]_vars

\* a record was written for a date that was selected the day before and is
\* past at the instant of the write
C25_Witness ==
    /\ reply.out = "saved" /\ reply.n < nowDay
    /\ \E r \in registrations : r.user_id = reply.chat /\ r.event_date = reply.n

\* C26: with the events of each chat handled one at a time, the state and the
\* scratch of every chat agree in every reachable state: MAIN_MENU and
\* CHOOSE_DATE have an empty scratch; CHOOSE_TYPE has a selected date;
\* CHOOSE_DOVOBE_REASON has a selected date and the type "Dobove";
\* CHOOSE_DOZVIL_TIME has, besides, the reason "dozvil N.I."; REG_FIRSTNAME has
\* rank and surname; REG_GROUP has rank and name.
C26_StateScratchConsistent ==
    \A c \in Users :
       LET ud == user_data[c]
           Dobove == /\ Has(ud, "selected_date")
                     /\ Has(ud, "event_type") /\ ud["event_type"] = DOBOVE
       IN /\ state[c] \in {MAIN_MENU, CHOOSE_DATE} => DOMAIN ud = {}
          /\ state[c] = CHOOSE_TYPE => Has(ud, "selected_date")
          /\ state[c] = CHOOSE_DOVOBE_REASON => Dobove
          /\ state[c] = CHOOSE_DOZVIL_TIME =>
                Dobove /\ Has(ud, "reason") /\ ud["reason"] = "dozvil N.I."
          /\ state[c] = REG_FIRSTNAME => Has(ud, "rank") /\ Has(ud, "surname")
          /\ state[c] = REG_GROUP => Has(ud, "rank") /\ Has(ud, "name")

\* a chat whose Person the admin deleted pressed a return time: the insert
\* failed, and the chat is still in CHOOSE_DOZVIL_TIME with its scratch
C26_Witness ==
    /\ reply.op = "choose_dozvil_time" /\ reply.out = "ForeignKeyViolation"
    /\ state[reply.chat] = CHOOSE_DOZVIL_TIME
    /\ ~UserExists(users, reply.chat)
    /\ Has(user_data[reply.chat], "reason")

====
